---- MODULE Spec2Model ----
(***************************************************************************)
(* A model of the line-numbered BASIC interpreter: the program list        *)
(* (Node), the Program with its cursor and variable map, the execute loop, *)
(* and the nom-based parsers of lines, LET payloads and expressions.       *)
(*                                                                         *)
(* Text is a sequence of one-character strings; a Rust String, &str and    *)
(* identifier are all such sequences.                                      *)
(***************************************************************************)
EXTENDS Integers, Sequences, FiniteSets

VARIABLES
    program,  \* the Program `self` that execute is called on: nodes, current, vars
    iter,     \* the clone `iter` of execute, which drives the cursor
    pc,       \* "ready" | "running" | "returned" | "panicked"
    stdout,   \* the lines println! has written, oldest first
    item,     \* the Line bound by the last `while let` iteration, <<>> before any
    steps,    \* iterations of the loop in the current call of execute
    calls,    \* calls of execute made on `program`
    input,    \* the text handed to a parser (parser specifications)
    output    \* what that parser returned, NotRun before it has run

vars == <<program, iter, pc, stdout, item, steps, calls, input, output>>

(***************************************************************************)
(* Bounds of the model.                                                    *)
(***************************************************************************)
MaxLines == 3   \* entries in a program
MaxSteps == 6   \* loop iterations followed within one call of execute
MaxCalls == 2   \* calls of execute on one Program

(***************************************************************************)
(* basic.rs: Primitive, PrintOutput, Command, Line, Node.                  *)
(***************************************************************************)
PrimInt(i) == [tag |-> "Int", i |-> i]
PrimString(s) == [tag |-> "String", s |-> s]
PrimAssignment(a) == [tag |-> "Assignment", a |-> a]

OutValue(s) == [tag |-> "Value", s |-> s]
OutVariable(v) == [tag |-> "Variable", v |-> v]

CmdPrint(o) == [tag |-> "Print", out |-> o]
CmdGoTo(n) == [tag |-> "GoTo", line |-> n]
CmdVar(id, p) == [tag |-> "Var", id |-> id, prim |-> p]
CmdComment == [tag |-> "Comment"]
CmdNone == [tag |-> "None"]

\* Option<Node>, the result of find_line
SomeNode(n) == [some |-> TRUE, node |-> n]
NoNode == [some |-> FALSE]

\* find_line answering with the node after the match (next in place of self)
RECURSIVE find_line_next(_, _)
find_line_next(node, line) ==
    IF node = <<>> THEN NoNode
    ELSE IF Head(node)[1] = line THEN SomeNode(Tail(node))
    ELSE find_line_next(Tail(node), line)

\* Node::find_line: a Node is the sequence of the Lines linked from it
RECURSIVE find_line(_, _)
find_line(node, line) ==
    IF node = <<>> THEN NoNode
    ELSE IF Head(node)[1] = line THEN SomeNode(node)
    ELSE find_line(Tail(node), line)

\* Node::push: appends at the end of the list
RECURSIVE push(_, _)
push(node, val) ==
    IF node = <<>> THEN <<val>>
    ELSE <<Head(node)>> \o push(Tail(node), val)

EmptyVars == [id \in {} |-> PrimInt(0)]

\* Program::new
new(node) == [nodes |-> node, current |-> node, vars |-> EmptyVars]

\* jump_to_line searching from the cursor instead of from the head of the program
jump_to_line_from_current(self, line) ==
    LET found == find_line(self.current, line)
    IN  IF found.some
        THEN [panic |-> FALSE, self |-> [self EXCEPT !.current = found.node]]
        ELSE [panic |-> TRUE]

\* jump_to_line that leaves the cursor alone when the line is missing
jump_to_line_lenient(self, line) ==
    LET found == find_line(self.nodes, line)
    IN  IF found.some
        THEN [panic |-> FALSE, self |-> [self EXCEPT !.current = found.node]]
        ELSE [panic |-> FALSE, self |-> self]

\* Program::jump_to_line: the Program after the jump, or a panic
jump_to_line(self, line) ==
    LET found == find_line(self.nodes, line)
    IN  IF found.some
        THEN [panic |-> FALSE, self |-> [self EXCEPT !.current = found.node]]
        ELSE [panic |-> TRUE]

\* Iterator::next for Program: the Node returned (none at the end) and the
\* Program with its cursor moved on
next(self) ==
    IF self.current = <<>>
    THEN [some |-> FALSE, self |-> self]
    ELSE [some |-> TRUE, node |-> self.current,
          self |-> [self EXCEPT !.current = Tail(self.current)]]

\* HashMap::insert
insert(map, k, v) == [x \in DOMAIN map \cup {k} |-> IF x = k THEN v ELSE map[x]]

(***************************************************************************)
(* Formatting of a Primitive.                                              *)
(***************************************************************************)
DigitChars == <<"0", "1", "2", "3", "4", "5", "6", "7", "8", "9">>

RECURSIVE NatText(_)
NatText(n) ==
    IF n < 10 THEN <<DigitChars[n + 1]>>
    ELSE NatText(n \div 10) \o <<DigitChars[(n % 10) + 1]>>

\* "{}" of an i64
IntText(i) == IF i < 0 THEN <<"-">> \o NatText(0 - i) ELSE NatText(i)

\* "{:?}" of a str: quoted, with quote, backslash and newline escaped
RECURSIVE EscapeDebug(_)
EscapeDebug(s) ==
    IF s = <<>> THEN <<>>
    ELSE (CASE Head(s) = "\"" -> <<"\\", "\"">>
            [] Head(s) = "\\" -> <<"\\", "\\">>
            [] Head(s) = "\n" -> <<"\\", "n">>
            [] OTHER -> <<Head(s)>>) \o EscapeDebug(Tail(s))

StrDebug(s) == <<"\"">> \o EscapeDebug(s) \o <<"\"">>

\* the derived Debug of basic.rs's Primitive, which "{:?}" uses
fmt_debug(p) ==
    CASE p.tag = "Int" -> <<"I", "n", "t", "(">> \o IntText(p.i) \o <<")">>
      [] p.tag = "String" ->
            <<"S", "t", "r", "i", "n", "g", "(">> \o StrDebug(p.s) \o <<")">>
      [] p.tag = "Assignment" ->
            <<"A", "s", "s", "i", "g", "n", "m", "e", "n", "t", "(">>
                \o StrDebug(p.a) \o <<")">>

\* Display for Primitive (commands.rs), which "{}" would use
fmt(p) ==
    CASE p.tag = "Int" -> IntText(p.i)
      [] p.tag = "String" -> p.s
      [] p.tag = "Assignment" ->
            <<"A", "s", "s", "i", "g", "m", "e", "n", "t", " ", "f", "r", "o", "m", " ">>
                \o p.a

(***************************************************************************)
(* nom: results and the combinators the parsers are built from.            *)
(***************************************************************************)
Ok(rest, val) == [kind |-> "Ok", rest |-> rest, val |-> val]
Error == [kind |-> "Error"]            \* Err(Err::Error(_))
Incomplete == [kind |-> "Incomplete"]  \* Err(Err::Incomplete(_))

\* `let (i, x) = parser(i)?;` followed by the rest of the function, and the
\* sequencing of tuple, preceded, terminated and delimited
AndThen(r, F(_)) == IF r.kind # "Ok" THEN r ELSE F(r)

\* combinator::map
Map(r, F(_)) == IF r.kind # "Ok" THEN r ELSE Ok(r.rest, F(r.val))

\* branch::alt: the next parser is tried after an Err::Error only
Alt(a, b) == IF a.kind = "Error" THEN b ELSE a

\* Result::unwrap_or
UnwrapOr(r, default) == IF r.kind = "Ok" THEN r ELSE default

Drop(i, n) == SubSeq(i, n + 1, Len(i))
Take(i, n) == SubSeq(i, 1, n)

DigitSet == {DigitChars[k] : k \in 1..10}
Lower ==
    <<"a", "b", "c", "d", "e", "f", "g", "h", "i", "j", "k", "l", "m",
      "n", "o", "p", "q", "r", "s", "t", "u", "v", "w", "x", "y", "z">>
Upper ==
    <<"A", "B", "C", "D", "E", "F", "G", "H", "I", "J", "K", "L", "M",
      "N", "O", "P", "Q", "R", "S", "T", "U", "V", "W", "X", "Y", "Z">>
Alphabetic == {Lower[k] : k \in 1..26} \cup {Upper[k] : k \in 1..26}
Alphanumeric == Alphabetic \cup DigitSet

\* the length of the longest prefix of i made of characters of S
SpanLen(S, i) ==
    CHOOSE n \in 0..Len(i) :
        /\ \A k \in 1..n : i[k] \in S
        /\ n = Len(i) \/ i[n + 1] \notin S

\* the length of the longest prefix of i holding no character of S
SpanLenNot(S, i) ==
    CHOOSE n \in 0..Len(i) :
        /\ \A k \in 1..n : i[k] \notin S
        /\ n = Len(i) \/ i[n + 1] \in S

\* the split of i after its first n characters, an error when n is 0
Split1(i, n) == IF n = 0 THEN Error ELSE Ok(Drop(i, n), Take(i, n))

\* bytes::complete::tag
tag(t, i) ==
    IF Len(i) >= Len(t) /\ Take(i, Len(t)) = t THEN Ok(Drop(i, Len(t)), t) ELSE Error

\* character::complete::digit1 and alphanumeric1
digit1(i) == Split1(i, SpanLen(DigitSet, i))
alphanumeric1(i) == Split1(i, SpanLen(Alphanumeric, i))

DigitValue(c) == CHOOSE d \in 0..9 : DigitChars[d + 1] = c

RECURSIVE DigitsValue(_)
DigitsValue(ds) ==
    IF ds = <<>> THEN 0
    ELSE 10 * DigitsValue(Take(ds, Len(ds) - 1)) + DigitValue(ds[Len(ds)])

\* character::complete::u64: the leading digits, an error when there is none
\* (the texts parsed here are too short for the checked arithmetic to overflow)
ccu64(i) == Map(digit1(i), DigitsValue)

Negate(n) == 0 - n

\* character::complete::i64: an optional sign, then the leading digits
cci64(i) ==
    IF i # <<>> /\ Head(i) = "-" THEN Map(ccu64(Tail(i)), Negate)
    ELSE IF i # <<>> /\ Head(i) = "+" THEN ccu64(Tail(i))
    ELSE ccu64(i)

\* character::streaming::one_of: at the end of the input it asks for more
one_of(list, i) ==
    IF i = <<>> THEN Incomplete
    ELSE IF Head(i) \in list THEN Ok(Tail(i), Head(i))
    ELSE Error

(***************************************************************************)
(* parsers/generic.rs                                                      *)
(***************************************************************************)
\* the split of i after its first n characters
Split0(i, n) == Ok(Drop(i, n), Take(i, n))

\* consume_line: take_while(|c| c != '\n')
consume_line(i) == Split0(i, SpanLenNot({"\n"}, i))

\* escaped_transform(none_of("\\\""), '\\', alt((value("\\", tag("\\")),
\* value("\"", tag("\""))))): index counts the characters consumed, res is the
\* text built so far; a text that starts with neither a normal character nor
\* the control character is an error
RECURSIVE escaped_transform(_, _, _)
escaped_transform(i, index, res) ==
    IF index >= Len(i) THEN Ok(<<>>, res)
    ELSE IF i[index + 1] \notin {"\\", "\""}
    THEN escaped_transform(i, index + 1, Append(res, i[index + 1]))
    ELSE IF i[index + 1] = "\\"
    THEN IF index + 1 >= Len(i) THEN Error
         ELSE IF i[index + 2] \in {"\\", "\""}
         THEN escaped_transform(i, index + 2, Append(res, i[index + 2]))
         ELSE Error
    ELSE IF index = 0 THEN Error
    ELSE Ok(Drop(i, index), res)

\* read_string: delimited(tag("\""), escaped_transform(..), tag("\""))
read_string(i) ==
    AndThen(tag(<<"\"">>, i), LAMBDA open :
    AndThen(escaped_transform(open.rest, 0, <<>>), LAMBDA body :
    AndThen(tag(<<"\"">>, body.rest), LAMBDA close :
    Ok(close.rest, body.val))))

(***************************************************************************)
(* parsers/variables.rs                                                    *)
(***************************************************************************)
\* parse_int_variable_name: preceded(not(digit1), alphanumeric1)
parse_int_variable_name(i) ==
    IF digit1(i).kind = "Ok" THEN Error ELSE alphanumeric1(i)

\* parse_int: name '=' i64
parse_int(i) ==
    AndThen(parse_int_variable_name(i), LAMBDA id :
    AndThen(tag(<<"=">>, id.rest), LAMBDA eq :
    AndThen(cci64(eq.rest), LAMBDA var :
    Ok(var.rest, <<id.val, PrimInt(var.val)>>))))

\* parse_str_variable_name: terminated(verify(anychar, is_alphabetic), tag("$"))
parse_str_variable_name(i) ==
    IF i = <<>> \/ Head(i) \notin Alphabetic THEN Error
    ELSE AndThen(tag(<<"$">>, Tail(i)), LAMBDA dollar :
         Ok(dollar.rest, <<Head(i), "$">>))

\* parse_str: name$ '=' quoted string
parse_str(i) ==
    AndThen(parse_str_variable_name(i), LAMBDA id :
    AndThen(tag(<<"=">>, id.rest), LAMBDA eq :
    AndThen(read_string(eq.rest), LAMBDA var :
    Ok(var.rest, <<id.val, PrimString(var.val)>>))))

\* parse_assignment: name '=' rest of the line
parse_assignment(i) ==
    AndThen(Alt(parse_str_variable_name(i), parse_int_variable_name(i)), LAMBDA id :
    AndThen(tag(<<"=">>, id.rest), LAMBDA eq :
    AndThen(consume_line(eq.rest), LAMBDA assigned :
    Ok(assigned.rest, <<id.val, PrimAssignment(assigned.val)>>))))

\* parse_var with the alias form tried first
parse_var_alias_first(i) == Alt(parse_assignment(i), Alt(parse_int(i), parse_str(i)))

\* parse_var: alt((parse_int, parse_str, parse_assignment))
parse_var(i) == Alt(parse_int(i), Alt(parse_str(i), parse_assignment(i)))

(***************************************************************************)
(* parsers/expressions.rs                                                  *)
(***************************************************************************)
Val(p) == [tag |-> "Val", prim |-> p]
Expression(e) == [tag |-> "Expression", expr |-> e]
OperatorChars == {"*", "/", "+", "-"}

\* impl From<char> for Operator
Operator(c) ==
    CASE c = "+" -> "Add"
      [] c = "-" -> "Subtract"
      [] c = "/" -> "Divide"
      [] c = "*" -> "Multiply"

\* impl From<i64> for ExpressionTarget
FromInt(v) == Val(PrimInt(v))

\* parse_expression: tuple((i64, one_of("*/+-"), i64))
parse_expression(i) ==
    AndThen(Map(cci64(i), FromInt), LAMBDA l :
    AndThen(Map(one_of(OperatorChars, l.rest), Operator), LAMBDA op :
    AndThen(Map(cci64(op.rest), FromInt), LAMBDA r :
    Ok(r.rest, <<l.val, op.val, r.val>>))))

\* parse_expression_target: alt((parse_expression, i64))
parse_expression_target(i) ==
    Alt(Map(parse_expression(i), Expression), Map(cci64(i), FromInt))

\* parse_full_expression: tuple((target, one_of("*/+-"), target))
parse_full_expression(i) ==
    AndThen(parse_expression_target(i), LAMBDA l :
    AndThen(Map(one_of(OperatorChars, l.rest), Operator), LAMBDA op :
    AndThen(parse_expression_target(op.rest), LAMBDA r :
    Ok(r.rest, <<l.val, op.val, r.val>>))))

(***************************************************************************)
(* basic.rs: the command and line parsers, the program builder.            *)
(***************************************************************************)
KwPrint == <<"P", "R", "I", "N", "T">>
KwGoTo == <<"G", "O", " ", "T", "O">>
KwLet == <<"L", "E", "T">>
KwRem == <<"R", "E", "M">>

\* match_command: alt((tag("PRINT"), tag("GO TO"), tag("LET"), tag("REM")))
match_command(i) ==
    Alt(tag(KwPrint, i), Alt(tag(KwGoTo, i), Alt(tag(KwLet, i), tag(KwRem, i))))

\* parse_print_command: a variable name, else a quoted string
parse_print_command(i) ==
    Alt(Map(Alt(parse_str_variable_name(i), parse_int_variable_name(i)), OutVariable),
        Map(read_string(i), OutValue))

VarOf(pair) == CmdVar(pair[1], pair[2])
CommentOf(text) == CmdComment

\* parse_command, from the keyword matched (none: the input as it was, "")
parse_matched(matched) ==
    AndThen(tag(<<" ">>, matched.rest), LAMBDA space :
        CASE matched.val = KwPrint -> Map(parse_print_command(space.rest), CmdPrint)
          [] matched.val = KwGoTo -> Map(ccu64(space.rest), CmdGoTo)
          [] matched.val = KwLet -> Map(parse_var(space.rest), VarOf)
          [] matched.val = KwRem -> Map(consume_line(space.rest), CommentOf)
          [] OTHER -> Ok(space.rest, CmdNone))

\* parse_command
parse_command(i) == parse_matched(UnwrapOr(match_command(i), Ok(i, <<>>)))

\* parse_line: terminated(u64, tag(" ")), then parse_command
parse_line(line) ==
    AndThen(ccu64(line), LAMBDA number :
    AndThen(tag(<<" ">>, number.rest), LAMBDA space :
    AndThen(parse_command(space.rest), LAMBDA command :
    Ok(command.rest, <<number.val, command.val>>))))

\* the loop of separated_list0(tag("\n"), parse_line) after an element: a
\* separator or an element that fails ends the list before that separator
RECURSIVE separated_rest(_, _)
separated_rest(i, res) ==
    UnwrapOr(AndThen(tag(<<"\n">>, i), LAMBDA sep :
             AndThen(parse_line(sep.rest), LAMBDA elem :
             separated_rest(elem.rest, Append(res, elem.val)))),
             Ok(i, res))

\* separated_list0(tag("\n"), parse_line)
separated_list0(i) ==
    UnwrapOr(AndThen(parse_line(i), LAMBDA first :
             separated_rest(first.rest, <<first.val>>)),
             Ok(i, <<>>))

\* the for loop of read_program: node.push(line.clone()) for each line
RECURSIVE push_all(_, _)
push_all(node, lines) ==
    IF lines = <<>> THEN node
    ELSE push_all(push(node, Head(lines)), Tail(lines))

\* Program::new on the list built from the lines
ProgramOf(lines) == new(push_all(<<>>, lines))

\* read_program
read_program(i) == Map(separated_list0(i), ProgramOf)

(***************************************************************************)
(* The programs execute is run on.                                         *)
(***************************************************************************)
IdA == <<"a">>
IdB == <<"b", "$">>
LineNumbers == {10, 20}
Commands ==
    { CmdPrint(OutValue(<<"h", "i">>)), CmdPrint(OutVariable(IdA)),
      CmdGoTo(10), CmdGoTo(30),
      CmdVar(IdA, PrimInt(1)), CmdVar(IdB, PrimString(<<"x", "\"">>)),
      CmdVar(IdA, PrimAssignment(IdB)),
      CmdComment, CmdNone }
Lines == LineNumbers \X Commands

RECURSIVE Nodes(_)
Nodes(n) ==
    IF n = 0 THEN {<<>>}
    ELSE Nodes(n - 1) \cup {push(node, l) : node \in Nodes(n - 1), l \in Lines}

NotRun == [parser |-> "none"]

\* program texts handed to Program::from
TextLetPrint == <<"1", "0", " ", "L", "E", "T", " ", "a", "=", "1", "\n", "2", "0", " ", "P", "R", "I", "N", "T", " ", "a">>
TextSelfLoop == <<"1", "0", " ", "G", "O", " ", "T", "O", " ", "1", "0">>
SourceTexts ==
    { TextLetPrint, TextSelfLoop,
      <<"1", "0", " ", "L", "E", "T", " ", "b", "$", "=", "\"", "x", "\"", "\n", "2", "0", " ", "L", "E", "T", " ", "a", "=", "b", "$", "\n", "3", "0", " ", "P", "R", "I", "N", "T", " ", "a">>,
      <<"1", "0", " ", "P", "R", "I", "N", "T", " ", "\"", "h", "i", "\"", "\n", "2", "0", " ", "G", "O", " ", "T", "O", " ", "4", "0", "\n", "3", "0", " ", "R", "E", "M", " ", "x">>,
      <<"1", "0", " ", "R", "E", "M", " ", "x", "\n", "2", "0", " ", " ", "y">>,
      <<"1", "0", " ", "P", "R", "I", "N", "T", " ", "a", "\n", "2", "0", " ", "L", "E", "T", " ", "a", "=", "-", "5">> }

\* a Program built by Program::new from a list of lines, or a text that
\* Program::from has still to read
Init ==
    /\ \/ /\ \E node \in Nodes(MaxLines) : program = new(node)
          /\ pc = "ready"
          /\ input = <<>>
       \/ /\ program = new(<<>>)
          /\ pc = "source"
          /\ input \in SourceTexts
    /\ iter = program
    /\ stdout = <<>>
    /\ item = <<>>
    /\ steps = 0
    /\ calls = 0
    /\ output = NotRun

\* impl From<&str> for Program: read_program(value).unwrap(), the rest dropped
FromText ==
    /\ pc = "source"
    /\ program' = read_program(input).val
    /\ iter' = program'
    /\ pc' = "ready"
    /\ UNCHANGED <<stdout, item, steps, calls, input, output>>

(***************************************************************************)
(* Program::execute.                                                       *)
(***************************************************************************)
\* let mut iter = self.clone();
Execute ==
    /\ pc \in {"ready", "returned"}
    /\ calls < MaxCalls
    /\ iter' = program
    /\ pc' = "running"
    /\ steps' = 0
    /\ calls' = calls + 1
    /\ UNCHANGED <<program, stdout, item, input, output>>

\* the command of the Line that iter.next() hands to the loop body
Cmd == Head(next(iter).node)[2]

\* one iteration of `while let Some(node) = iter.next()`
Iteration ==
    /\ pc = "running"
    /\ steps < MaxSteps
    /\ next(iter).some
    /\ item' = Head(next(iter).node)
    /\ steps' = steps + 1
    /\ UNCHANGED <<calls, input, output>>

\* a panic!, or the unwrap of a None: the process is gone
Panic ==
    /\ pc' = "panicked"
    /\ iter' = next(iter).self
    /\ UNCHANGED <<program, stdout>>

\* Command::Print(PrintOutput::Value(line)) => println!("{}", line)
PrintValue ==
    /\ Iteration
    /\ Cmd.tag = "Print" /\ Cmd.out.tag = "Value"
    /\ stdout' = Append(stdout, Cmd.out.s)
    /\ iter' = next(iter).self
    /\ UNCHANGED <<program, pc>>

\* Command::Print(PrintOutput::Variable(variable)) =>
\*     println!("{:?}", self.vars.get(&variable).unwrap())
PrintVariable ==
    /\ Iteration
    /\ Cmd.tag = "Print" /\ Cmd.out.tag = "Variable"
    /\ IF Cmd.out.v \in DOMAIN program.vars
       THEN /\ stdout' = Append(stdout, fmt_debug(program.vars[Cmd.out.v]))
            /\ iter' = next(iter).self
            /\ UNCHANGED <<program, pc>>
       ELSE Panic

\* Command::GoTo(line) => iter.jump_to_line(line)
ExecGoTo ==
    /\ Iteration
    /\ Cmd.tag = "GoTo"
    /\ IF jump_to_line(next(iter).self, Cmd.line).panic
       THEN Panic
       ELSE /\ iter' = jump_to_line(next(iter).self, Cmd.line).self
            /\ UNCHANGED <<program, pc, stdout>>

\* the alias stored as it stands, as the arm for every other Var would store it
VarAssignmentStored ==
    /\ Iteration
    /\ Cmd.tag = "Var" /\ Cmd.prim.tag = "Assignment"
    /\ IF Cmd.prim.a \in DOMAIN program.vars
       THEN /\ program' = [program EXCEPT !.vars = insert(@, Cmd.id, Cmd.prim)]
            /\ iter' = next(iter).self
            /\ UNCHANGED <<pc, stdout>>
       ELSE Panic

\* Command::Var((id, Primitive::Assignment(variable))) =>
\*     self.vars.insert(id, self.vars.get(&variable).unwrap().clone())
VarAssignment ==
    /\ Iteration
    /\ Cmd.tag = "Var" /\ Cmd.prim.tag = "Assignment"
    /\ IF Cmd.prim.a \in DOMAIN program.vars
       THEN /\ program' = [program EXCEPT
                    !.vars = insert(@, Cmd.id, program.vars[Cmd.prim.a])]
            /\ iter' = next(iter).self
            /\ UNCHANGED <<pc, stdout>>
       ELSE Panic

\* Command::Var((id, var)) => self.vars.insert(id, var)
VarValue ==
    /\ Iteration
    /\ Cmd.tag = "Var" /\ Cmd.prim.tag # "Assignment"
    /\ program' = [program EXCEPT !.vars = insert(@, Cmd.id, Cmd.prim)]
    /\ iter' = next(iter).self
    /\ UNCHANGED <<pc, stdout>>

\* Command::Comment => ()
ExecComment ==
    /\ Iteration
    /\ Cmd.tag = "Comment"
    /\ iter' = next(iter).self
    /\ UNCHANGED <<program, pc, stdout>>

\* the catch-all arm doing nothing, as the Comment arm does
UnrecognisedIgnored ==
    /\ Iteration
    /\ Cmd.tag = "None"
    /\ iter' = next(iter).self
    /\ UNCHANGED <<program, pc, stdout>>

\* _ => panic!("Unrecognised command")
Unrecognised ==
    /\ Iteration
    /\ Cmd.tag = "None"
    /\ Panic

\* iter.next() is None: the loop ends and execute returns
Return ==
    /\ pc = "running"
    /\ ~next(iter).some
    /\ pc' = "returned"
    /\ UNCHANGED <<program, iter, stdout, item, steps, calls, input, output>>

Next ==
    \/ FromText
    \/ Execute
    \/ PrintValue
    \/ PrintVariable
    \/ ExecGoTo
    \/ VarAssignment
    \/ VarValue
    \/ ExecComment
    \/ Unrecognised
    \/ Return

Spec == Init /\ [][Next]_vars

(***************************************************************************)
(* The parsers run on texts.                                               *)
(***************************************************************************)
MaxTextLines == 2   \* lines in a program text
MaxOperands == 4    \* integers in an expression text

UnknownWords == {<<"F", "O", "O">>, <<"P", "R", "I", "N", "T", "X">>}
Words == {KwPrint, KwGoTo, KwLet, KwRem, <<>>} \cup UnknownWords
Payloads ==
    { <<"\"", "h", "i", "\"">>, <<"a">>, <<"b", "$">>, <<"1", "0">>,
      <<"a", "=", "1">>, <<"b", "$", "=", "\"", "x", "\"">>,
      <<"a", "=", "b", "$">>, <<"x", " ", "y">>, <<>> }

LineText(n, w, p) == NatText(n) \o <<" ">> \o w \o <<" ">> \o p
LineTexts ==
    {LineText(n, w, p) : n \in LineNumbers, w \in Words, p \in Payloads}
        \cup {NatText(n) \o <<" ">> \o w : n \in LineNumbers, w \in Words}
        \cup {NatText(n) : n \in LineNumbers}

RECURSIVE ProgramTexts(_)
ProgramTexts(n) ==
    IF n = 1 THEN LineTexts
    ELSE ProgramTexts(n - 1)
            \cup {t \o <<"\n">> \o l : t \in ProgramTexts(n - 1), l \in LineTexts}

\* the text of a quoted string holding s
RECURSIVE Escape(_)
Escape(s) ==
    IF s = <<>> THEN <<>>
    ELSE (IF Head(s) \in {"\\", "\""} THEN <<"\\", Head(s)>> ELSE <<Head(s)>>)
            \o Escape(Tail(s))
Quoted(s) == <<"\"">> \o Escape(s) \o <<"\"">>

IntNames == {<<"a">>, <<"a", "p", "p", "l", "e">>, <<"a", "1">>}
IntValues == {0, 1, 22, -5}
StrNames == {"a", "b"}
StrValues == {<<>>, <<"x">>, <<"h", "i">>, <<"q", "\"">>, <<"\\">>}
IntPayload(name, v) == name \o <<"=">> \o IntText(v)
StrPayload(c, s) == <<c, "$", "=">> \o Quoted(s)
VarTexts ==
    {IntPayload(name, v) : name \in IntNames, v \in IntValues}
        \cup {StrPayload(c, s) : c \in StrNames, s \in StrValues}
        \cup { <<"a", "=", "b", "$">>, <<"a", "=", "b">>, <<"b", "$", "=", "a">>, <<"a", "$", "=", "5">>,
               <<"0", "a", "=", "1">>, <<"a", "b", "$", "=", "\"", "x", "\"">>, <<"a", "=">>,
               <<"=", "1">>, <<"a", "=", "+", "5">> }

\* i1 op1 i2 ... as the sequence <<i1, op1, i2, ...>> of integers and
\* operator characters
Operands == {1, 2}
RECURSIVE Chains(_)
Chains(n) ==
    IF n = 1 THEN {<<i>> : i \in Operands}
    ELSE {c \o <<op, i>> : c \in Chains(n - 1), op \in OperatorChars, i \in Operands}

RECURSIVE ChainText(_)
ChainText(c) ==
    IF Len(c) = 1 THEN IntText(c[1])
    ELSE ChainText(Take(c, Len(c) - 2)) \o <<c[Len(c) - 1]>> \o IntText(c[Len(c)])

AllChains == UNION {Chains(n) : n \in 2..MaxOperands}
ExprTexts ==
    {ChainText(c) : c \in AllChains} \cup {ChainText(c) \o <<" ">> : c \in AllChains}

InitParse ==
    /\ program = new(<<>>)
    /\ iter = program
    /\ pc = "parse"
    /\ stdout = <<>>
    /\ item = <<>>
    /\ steps = 0
    /\ calls = 0
    /\ input \in ProgramTexts(MaxTextLines) \cup VarTexts \cup ExprTexts
    /\ output = NotRun

\* a parser is handed the text and its result kept
Returns(parser, result) ==
    /\ output' = [parser |-> parser, result |-> result]
    /\ UNCHANGED <<program, iter, pc, stdout, item, steps, calls, input>>

ReadProgram ==
    /\ pc = "parse" /\ output = NotRun
    /\ Returns("read_program", read_program(input))

ParseLine ==
    /\ pc = "parse" /\ output = NotRun
    /\ Returns("parse_line", parse_line(input))

ParseVar ==
    /\ pc = "parse" /\ output = NotRun
    /\ Returns("parse_var", parse_var(input))

ParseFullExpression ==
    /\ pc = "parse" /\ output = NotRun
    /\ Returns("parse_full_expression", parse_full_expression(input))

NextParse ==
    \/ ReadProgram
    \/ ParseLine
    \/ ParseVar
    \/ ParseFullExpression

SpecParse == InitParse /\ [][NextParse]_vars

(***************************************************************************)
(* Properties of execute.                                                  *)
(***************************************************************************)
Suffix(s, k) == SubSeq(s, k, Len(s))
HasLine(node, n) == \E k \in 1..Len(node) : node[k][1] = n
FirstIndex(node, n) ==
    CHOOSE k \in 1..Len(node) :
        node[k][1] = n /\ \A j \in 1..(k - 1) : node[j][1] # n

\* the loop is about to dispatch an entry
AtEntry == pc = "running" /\ iter.current # <<>>
Here == Head(iter.current)[2]

\* C1: executing Jump(n) while some entry has line number n moves the cursor to
\* the first entry in program order whose line number is n, with the entries
\* after it, whether that entry lies before or after the jumping line.
C1_JumpRelocates ==
    [][(AtEntry /\ Here.tag = "GoTo" /\ HasLine(program.nodes, Here.line))
        => /\ pc' = "running"
           /\ iter'.current =
                Suffix(program.nodes, FirstIndex(program.nodes, Here.line))]_vars

\* a jump back from line 20 to a line 10 that stands first in the program
C1_Witness ==
    /\ pc = "running"
    /\ Len(program.nodes) >= 2
    /\ program.nodes[1][1] = 10
    /\ program.nodes[2] = <<20, CmdGoTo(10)>>
    /\ item = <<20, CmdGoTo(10)>>
    /\ iter.current = program.nodes

Faulting ==
    \/ Here.tag = "GoTo" /\ ~HasLine(program.nodes, Here.line)
    \/ Here.tag = "Print" /\ Here.out.tag = "Variable"
        /\ Here.out.v \notin DOMAIN program.vars
    \/ Here.tag = "Var" /\ Here.prim.tag = "Assignment"
        /\ Here.prim.a \notin DOMAIN program.vars

IsGoTo(l) == l[2].tag = "GoTo"
EveryGoToAbsent(node) ==
    /\ \E k \in 1..Len(node) : IsGoTo(node[k])
    /\ \A k \in 1..Len(node) : IsGoTo(node[k]) => ~HasLine(node, node[k][2].line)

\* C2: a Jump to an absent line, a Print of an undefined variable and an alias
\* of an undefined variable abort execution at that step: nothing is emitted,
\* the environment is untouched, no later entry is executed and execute does
\* not return; a program whose GO TOs all name absent lines never returns.
C2_FatalAborts ==
    [][/\ (AtEntry /\ Faulting)
            => (pc' = "panicked" /\ stdout' = stdout /\ program' = program)
       /\ pc = "panicked" => UNCHANGED vars
       /\ pc' = "returned" => ~EveryGoToAbsent(program.nodes)]_vars

\* a jump to the absent line 30 panicked after a line was printed and with an
\* entry still ahead of the cursor
C2_Witness ==
    /\ pc = "panicked"
    /\ item = <<20, CmdGoTo(30)>>
    /\ stdout # <<>>
    /\ iter.current # <<>>

\* C3: Print(VariableRef(id)) with id defined emits the textual value of the
\* stored primitive: the decimal digits of an Integer, the raw characters of
\* a Text.
C3_PrintsTextualValue ==
    [][(/\ AtEntry /\ steps < MaxSteps
        /\ Here.tag = "Print" /\ Here.out.tag = "Variable"
        /\ Here.out.v \in DOMAIN program.vars)
        => stdout' = Append(stdout, fmt(program.vars[Here.out.v]))]_vars

NoEffect ==
    /\ pc' = "running"
    /\ stdout' = stdout
    /\ program' = program
    /\ iter' = [iter EXCEPT !.current = Tail(iter.current)]

SelfLoop == << <<10, CmdGoTo(10)>> >>

\* C9: running ["10 GO TO 10"] never ends and never aborts: after every number
\* of steps the cursor is at line 10 again, the environment is empty and the
\* loop has its next iteration to run.
C9_SelfLoopRunsOn ==
    (program.nodes = SelfLoop /\ pc # "ready")
        => /\ pc = "running"
           /\ iter.current = SelfLoop
           /\ program.vars = EmptyVars
           /\ steps < MaxSteps => ENABLED ExecGoTo

\* the text "10 GO TO 10" was read and its jump taken three times or more
C9_Witness ==
    /\ input = TextSelfLoop
    /\ program.nodes = SelfLoop
    /\ steps >= 3
    /\ item = <<10, CmdGoTo(10)>>

\* C10: every call of execute starts with the cursor at the first program entry
\* and the environment empty, a second call on the same Program included.
C10_StartsFromInitialState ==
    [][(pc \in {"ready", "returned"} /\ pc' = "running")
        => (iter'.current = program.nodes /\ program'.vars = EmptyVars)]_vars

Concrete(p) == p.tag \in {"Int", "String"}

\* vars after `insert(id, v)`: id holds v and every other identifier is as before
Stores(id, v) ==
    /\ DOMAIN program'.vars = DOMAIN program.vars \cup {id}
    /\ program'.vars[id] = v
    /\ \A k \in DOMAIN program.vars \ {id} : program'.vars[k] = program.vars[k]

\* C11: in every reachable state every value stored in the environment is an
\* Integer or a Text and never an Alias; Assign(id, Alias(other)) with other
\* defined stores under id a copy of the value environment[other] holds at that
\* step, and Assign(id, Integer|Text v) stores v, inserting or overwriting id
\* and leaving every other identifier unchanged.
C11_EnvironmentHoldsConcreteValues ==
    /\ [](\A id \in DOMAIN program.vars : Concrete(program.vars[id]))
    /\ [][(AtEntry /\ steps < MaxSteps /\ Here.tag = "Var")
            => IF Here.prim.tag = "Assignment"
               THEN Here.prim.a \in DOMAIN program.vars
                        => Stores(Here.id, program.vars[Here.prim.a])
               ELSE Stores(Here.id, Here.prim)]_vars

\* LET a=b$ ran with b$ defined: a holds the text of b$, and b$ keeps it
C11_Witness ==
    /\ pc = "running"
    /\ item # <<>>
    /\ item[2] = CmdVar(IdA, PrimAssignment(IdB))
    /\ steps >= 2
    /\ IdB \in DOMAIN program.vars
    /\ IdA \in DOMAIN program.vars
    /\ program.vars[IdA] = program.vars[IdB]
    /\ program.vars[IdA].tag = "String"

(***************************************************************************)
(* Properties of the parsers.                                              *)
(***************************************************************************)
Ran(parser) == output.parser = parser
Result == output.result

\* the lines of a text: its pieces between the "\n"
RECURSIVE SplitLines(_)
SplitLines(text) ==
    IF SpanLenNot({"\n"}, text) = Len(text) THEN <<text>>
    ELSE <<Take(text, SpanLenNot({"\n"}, text))>>
            \o SplitLines(Drop(text, SpanLenNot({"\n"}, text) + 1))

\* C5: when read_program returns a Program the whole input was consumed and
\* the program holds one entry per newline-separated line of the input, each
\* the parse of its line, in input order; a line that does not parse, or not
\* to its end, makes read_program fail.
C5_ReadsToEndOfInput ==
    (Ran("read_program") /\ Result.kind = "Ok")
        => /\ Result.rest = <<>>
           /\ Len(Result.val.nodes) = Len(SplitLines(input))
           /\ \A k \in 1..Len(SplitLines(input)) :
                parse_line(SplitLines(input)[k]) = Ok(<<>>, Result.val.nodes[k])

\* C6: a line `<number> <word> <payload>` whose word is none of PRINT, GO TO,
\* LET and REM parses to (number, Empty).
C6_UnknownWordIsEmpty ==
    \A n \in LineNumbers, w \in UnknownWords, p \in Payloads :
        (Ran("parse_line") /\ input = LineText(n, w, p))
            => (Result.kind = "Ok" /\ Result.val = <<n, CmdNone>>)

\* C7: `name=<signed integer>` yields Assign(name, Integer), `c$="..."` yields
\* Assign(c$, Text), and an Alias is produced only when the integer form and
\* the string form both fail on the payload.
C7_IntegerStringAlias ==
    Ran("parse_var")
        => /\ \A name \in IntNames, v \in IntValues :
                input = IntPayload(name, v)
                    => Result = Ok(<<>>, <<name, PrimInt(v)>>)
           /\ \A c \in StrNames, s \in StrValues :
                input = StrPayload(c, s)
                    => Result = Ok(<<>>, <<(<<c, "$">>), PrimString(s)>>)
           /\ (Result.kind = "Ok" /\ Result.val[2].tag = "Assignment")
                => (parse_int(input).kind = "Error" /\ parse_str(input).kind = "Error")

\* the left-associative grouping of a chain: (((i1 op1 i2) op2 i3) op3 i4)
RECURSIVE LeftAssoc(_)
LeftAssoc(c) ==
    << IF Len(c) = 3 THEN FromInt(c[1]) ELSE Expression(LeftAssoc(Take(c, Len(c) - 2))),
       Operator(c[Len(c) - 1]),
       FromInt(c[Len(c)]) >>

\* C8: parse_full_expression groups a chain of integer operands strictly from
\* the left, whatever the operators: `i1 op1 i2` parses to (i1 op1 i2),
\* `i1 op1 i2 op2 i3` to ((i1 op1 i2) op2 i3), a chain of four to
\* (((i1 op1 i2) op2 i3) op3 i4).
C8_LeftAssociative ==
    \A c \in AllChains :
        (Ran("parse_full_expression") /\ input = ChainText(c))
            => Result = Ok(<<>>, LeftAssoc(c))

====
